---- MODULE Spec2Model ----
(***************************************************************************)
(* rvi-jeeves (src/jeeves.py): a one-shot publisher run from cron.  One   *)
(* run reads a profile section of the configuration file, resolves it     *)
(* into connection_info, connects to the bus, takes a channel and, with   *)
(* -b, publishes rabbit_message_body to rabbit_queue and closes.          *)
(*                                                                         *)
(* Text that the program inspects character by character (rabbit_port,    *)
(* rabbit_message_body, the published body) is a sequence of one-character *)
(* strings; text that it only passes on is a TLA+ string.                 *)
(***************************************************************************)
EXTENDS Integers, Sequences, FiniteSets, TLC

(***************************************************************************)
(* Characters                                                              *)
(***************************************************************************)
Digits == {"0", "1", "2", "3", "4", "5", "6", "7", "8", "9"}

OctDigits == {"0", "1", "2", "3", "4", "5", "6", "7"}

Letters == {"a", "b", "c", "e", "f", "h", "i", "k", "l", "m", "n", "o", "p",
            "r", "s", "t", "u", "y", "F", "N", "T"}

Quotes == {"'", "\""}

Punct == {"[", "]", "{", "}", ",", ":"}

DigitVal(c) ==
  CASE c = "0" -> 0 [] c = "1" -> 1 [] c = "2" -> 2 [] c = "3" -> 3
    [] c = "4" -> 4 [] c = "5" -> 5 [] c = "6" -> 6 [] c = "7" -> 7
    [] c = "8" -> 8 [] c = "9" -> 9

DigitChar(d) ==
  CASE d = 0 -> "0" [] d = 1 -> "1" [] d = 2 -> "2" [] d = 3 -> "3"
    [] d = 4 -> "4" [] d = 5 -> "5" [] d = 6 -> "6" [] d = 7 -> "7"
    [] d = 8 -> "8" [] d = 9 -> "9"

RECURSIVE BaseValue(_, _)
\* the number a run of digits denotes in the given base
BaseValue(ds, base) ==
  IF ds = <<>> THEN 0
  ELSE BaseValue(SubSeq(ds, 1, Len(ds) - 1), base) * base + DigitVal(ds[Len(ds)])

RECURSIVE IntToChars(_)
\* decimal text of an integer
IntToChars(n) ==
  IF n < 0 THEN <<"-">> \o IntToChars(0 - n)
  ELSE IF n < 10 THEN <<DigitChar(n)>>
  ELSE IntToChars(n \div 10) \o <<DigitChar(n % 10)>>

RECURSIVE ScanWhile(_, _, _)
\* first index at or after i whose character is not in Cls
ScanWhile(s, i, Cls) ==
  IF i <= Len(s) /\ s[i] \in Cls THEN ScanWhile(s, i + 1, Cls) ELSE i

RECURSIVE FindChar(_, _, _)
\* index of the first q at or after i, 0 when there is none
FindChar(s, i, q) ==
  IF i > Len(s) THEN 0
  ELSE IF s[i] = q THEN i ELSE FindChar(s, i + 1, q)

(***************************************************************************)
(* Python values, as far as ast.literal_eval produces them.  One record   *)
(* shape for every kind; a dict's items are key, value, key, value, ...   *)
(***************************************************************************)
MkStr(cs) == [kind |-> "str", chars |-> cs, num |-> 0, items |-> <<>>]

MkInt(n) == [kind |-> "int", chars |-> <<>>, num |-> n, items |-> <<>>]

MkBool(b) == [kind |-> "bool", chars |-> <<>>, num |-> IF b THEN 1 ELSE 0, items |-> <<>>]

MkNone == [kind |-> "NoneType", chars |-> <<>>, num |-> 0, items |-> <<>>]

MkName(cs) == [kind |-> "Name", chars |-> cs, num |-> 0, items |-> <<>>]

MkList(its) == [kind |-> "list", chars |-> <<>>, num |-> 0, items |-> its]

MkDict(its) == [kind |-> "dict", chars |-> <<>>, num |-> 0, items |-> its]

(***************************************************************************)
(* int(text), as line 140 applies it to rabbit_port: surrounding blanks   *)
(* are dropped, one sign is allowed and a non-empty run of decimal digits *)
(* is required.                                                           *)
(***************************************************************************)
RECURSIVE Strip(_)
Strip(s) ==
  IF s = <<>> THEN s
  ELSE IF s[1] = " " THEN Strip(Tail(s))
  ELSE IF s[Len(s)] = " " THEN Strip(SubSeq(s, 1, Len(s) - 1))
  ELSE s

Signs == {"+", "-"}

Unsigned(t) == IF t # <<>> /\ t[1] \in Signs THEN Tail(t) ELSE t

int(text) ==
  LET t == Strip(text)
      ds == Unsigned(t)
  IN IF ds # <<>> /\ \A i \in 1..Len(ds) : ds[i] \in Digits
     THEN [raised |-> "none",
           val |-> IF t[1] = "-" THEN 0 - BaseValue(ds, 10) ELSE BaseValue(ds, 10)]
     ELSE [raised |-> "ValueError", val |-> 0]

(***************************************************************************)
(* ast.literal_eval, line 205: the text is compiled as one expression     *)
(* (SyntaxError when it is none) and the tree is converted (ValueError    *)
(* for a node that is not a literal).  Grammar covered: quoted strings    *)
(* without escapes, non-negative integers, True, False, None, names,      *)
(* lists and dicts of these, nested.                                      *)
(***************************************************************************)
Tok(t, v) == [t |-> t, v |-> v]

RECURSIVE Tokenize(_, _)
Tokenize(s, i) ==
  IF i > Len(s) THEN <<>>
  ELSE LET c == s[i] IN
    IF c = " " THEN Tokenize(s, i + 1)
    ELSE IF c \in Punct THEN <<Tok("op", <<c>>)>> \o Tokenize(s, i + 1)
    ELSE IF c \in Quotes THEN
      LET j == FindChar(s, i + 1, c) IN
      IF j = 0 THEN <<Tok("err", <<>>)>>
      ELSE <<Tok("str", SubSeq(s, i + 1, j - 1))>> \o Tokenize(s, j + 1)
    ELSE IF c \in Digits THEN
      LET j == ScanWhile(s, i, Digits) IN
      <<Tok("num", SubSeq(s, i, j - 1))>> \o Tokenize(s, j)
    ELSE IF c \in Letters THEN
      LET j == ScanWhile(s, i, Letters \cup Digits) IN
      <<Tok("name", SubSeq(s, i, j - 1))>> \o Tokenize(s, j)
    ELSE <<Tok("err", <<>>)>>

PErr == [ok |-> FALSE, val |-> MkNone, next |-> 0]

POk(v, n) == [ok |-> TRUE, val |-> v, next |-> n]

IsOp(toks, i, c) == i <= Len(toks) /\ toks[i].t = "op" /\ toks[i].v = <<c>>

\* a Python 2 integer literal: a leading 0 makes it octal
NumLiteral(ds, n) ==
  IF Len(ds) > 1 /\ ds[1] = "0"
  THEN IF \A i \in 1..Len(ds) : ds[i] \in OctDigits
       THEN POk(MkInt(BaseValue(ds, 8)), n) ELSE PErr
  ELSE POk(MkInt(BaseValue(ds, 10)), n)

NameLiteral(cs, n) ==
  IF cs = <<"T", "r", "u", "e">> THEN POk(MkBool(TRUE), n)
  ELSE IF cs = <<"F", "a", "l", "s", "e">> THEN POk(MkBool(FALSE), n)
  ELSE IF cs = <<"N", "o", "n", "e">> THEN POk(MkNone, n)
  ELSE POk(MkName(cs), n)

RECURSIVE ParseValue(_, _)
RECURSIVE ParseList(_, _, _)
RECURSIVE ParseDict(_, _, _)

ParseValue(toks, i) ==
  IF i > Len(toks) THEN PErr
  ELSE LET tk == toks[i] IN
    CASE tk.t = "str" -> POk(MkStr(tk.v), i + 1)
      [] tk.t = "num" -> NumLiteral(tk.v, i + 1)
      [] tk.t = "name" -> NameLiteral(tk.v, i + 1)
      [] tk.t = "op" ->
           IF tk.v = <<"[">> THEN ParseList(toks, i + 1, <<>>)
           ELSE IF tk.v = <<"{">> THEN ParseDict(toks, i + 1, <<>>)
           ELSE PErr
      [] OTHER -> PErr

ParseList(toks, i, acc) ==
  IF IsOp(toks, i, "]") THEN POk(MkList(acc), i + 1)
  ELSE LET r == ParseValue(toks, i) IN
    IF ~r.ok THEN PErr
    ELSE IF IsOp(toks, r.next, ",") THEN ParseList(toks, r.next + 1, Append(acc, r.val))
    ELSE IF IsOp(toks, r.next, "]") THEN POk(MkList(Append(acc, r.val)), r.next + 1)
    ELSE PErr

ParseDict(toks, i, acc) ==
  IF IsOp(toks, i, "}") THEN POk(MkDict(acc), i + 1)
  ELSE LET k == ParseValue(toks, i) IN
    IF ~k.ok \/ ~IsOp(toks, k.next, ":") THEN PErr
    ELSE LET v == ParseValue(toks, k.next + 1) IN
      IF ~v.ok THEN PErr
      ELSE IF IsOp(toks, v.next, ",")
        THEN ParseDict(toks, v.next + 1, acc \o <<k.val, v.val>>)
      ELSE IF IsOp(toks, v.next, "}")
        THEN POk(MkDict(acc \o <<k.val, v.val>>), v.next + 1)
      ELSE PErr

RECURSIVE HasName(_)
HasName(v) ==
  \/ v.kind = "Name"
  \/ \E i \in 1..Len(v.items) : HasName(v.items[i])

literal_eval(raw) ==
  LET toks == Tokenize(raw, 1)
      r == ParseValue(toks, 1)
  IN IF \/ \E i \in 1..Len(toks) : toks[i].t = "err"
        \/ ~r.ok
        \/ r.next <= Len(toks)
     THEN [raised |-> "SyntaxError", val |-> MkNone]
     ELSE IF HasName(r.val) THEN [raised |-> "ValueError", val |-> MkNone]
     ELSE [raised |-> "none", val |-> r.val]

(***************************************************************************)
(* json.dumps, line 207, with its default separators ", " and ": ".       *)
(***************************************************************************)
RECURSIVE JsonEscape(_)
JsonEscape(cs) ==
  IF cs = <<>> THEN <<>>
  ELSE (IF cs[1] \in {"\"", "\\"} THEN <<"\\", cs[1]>> ELSE <<cs[1]>>)
       \o JsonEscape(Tail(cs))

JsonString(cs) == <<"\"">> \o JsonEscape(cs) \o <<"\"">>

JsonAtom(v) ==
  CASE v.kind = "int" -> IntToChars(v.num)
    [] v.kind = "bool" -> IF v.num = 1 THEN <<"t", "r", "u", "e">>
                          ELSE <<"f", "a", "l", "s", "e">>
    [] v.kind = "NoneType" -> <<"n", "u", "l", "l">>

RECURSIVE json_dumps(_)
RECURSIVE JsonItems(_, _)
RECURSIVE JsonPairs(_, _)

json_dumps(v) ==
  CASE v.kind = "str" -> JsonString(v.chars)
    [] v.kind = "list" -> <<"[">> \o JsonItems(v.items, 1) \o <<"]">>
    [] v.kind = "dict" -> <<"{">> \o JsonPairs(v.items, 1) \o <<"}">>
    [] OTHER -> JsonAtom(v)

JsonItems(its, i) ==
  IF i > Len(its) THEN <<>>
  ELSE json_dumps(its[i])
       \o (IF i < Len(its) THEN <<",", " ">> ELSE <<>>)
       \o JsonItems(its, i + 1)

\* a key that is not a string is written as the string of its JSON text
JsonPairs(its, i) ==
  IF i > Len(its) THEN <<>>
  ELSE (IF its[i].kind = "str" THEN JsonString(its[i].chars)
        ELSE JsonString(JsonAtom(its[i])))
       \o <<":", " ">> \o json_dumps(its[i + 1])
       \o (IF i + 1 < Len(its) THEN <<",", " ">> ELSE <<>>)
       \o JsonPairs(its, i + 2)

(***************************************************************************)
(* The profile section and the command line of one run                     *)
(***************************************************************************)
DefaultPort == 5672

None == [some |-> FALSE, v |-> ""]

Some(v) == [some |-> TRUE, v |-> v]

HostValues == {"", "rabbit.example.org"}

UserValues == {"jeeves"}

PassValues == {""}

VhostValues == {"/staging"}

PortValues ==
  {<<"5", "6", "7", "2">>, <<"8", "0">>, <<"-", "1">>, <<"a", "b", "c">>, <<"8", "0", "a">>, <<>>}

QueueValues == {"", "jobs"}

ExchangeValues == {""}

RoutingKeyValues == {"jobs.sync"}

BodyValues ==
  { <<"'", "h", "e", "l", "l", "o", "'">>,
    <<"4", "2">>,
    <<"T", "r", "u", "e">>,
    <<"N", "o", "n", "e">>,
    <<"[", "1", ",", " ", "2", "]">>,
    <<"{", "'", "a", "'", ":", " ", "1", "}">>,
    <<"{", "'", "t", "a", "s", "k", "'", ":", " ", "'", "s", "y", "n", "c", "'", "}">>,
    <<"i", "m", "p", "o", "r", "t", " ", "o", "s">>,
    <<"{", "'", "a", "'", ":", " ", "1">>,
    <<"f", "o", "o">>,
    <<>> }

\* a key of the section: absent, or present with one of the values
Option(key, values) == {<<>>} \cup {key :> v : v \in values}

Sections ==
  { h @@ u @@ p @@ vh @@ po @@ q @@ e @@ rk @@ b :
      h \in Option("rabbit_host", HostValues),
      u \in Option("rabbit_user", UserValues),
      p \in Option("rabbit_pass", PassValues),
      vh \in Option("rabbit_vhost", VhostValues),
      po \in Option("rabbit_port", PortValues),
      q \in Option("rabbit_queue", QueueValues),
      e \in Option("rabbit_exchange", ExchangeValues),
      rk \in Option("rabbit_routing_key", RoutingKeyValues),
      b \in Option("rabbit_message_body", BodyValues) }

VARIABLES
  file_readable,    \* open(CONF_FILE) succeeds
  config,           \* the ConfigParser after readfp: the section named by -s
  basic,            \* args.basic
  pc,               \* the statement of __main__ the run is at
  connection_info,  \* the dict get_connection_info returned
  calls,            \* the calls made on the transport (pika), in order
  evaluated,        \* ast.literal_eval has been applied to the body
  error             \* the exception that ended the run

vars == <<file_readable, config, basic, pc, connection_info, calls, evaluated, error>>

NoError == [exc |-> "none", at |-> "none"]

Raised(exc, at) == [exc |-> exc, at |-> at]

Has(options, key) == key \in DOMAIN options

(***************************************************************************)
(* get_connection_info, lines 104-170.  config_inst.get raises            *)
(* NoSectionError for a missing section and NoOptionError for a missing   *)
(* key; only NoOptionError is caught.                                      *)
(***************************************************************************)
\* lines 115-138: try get / except NoOptionError: the default
Get_blank_is_missing(o, key, default) ==
  IF Has(o, key) /\ o[key] # "" THEN o[key] ELSE default

Get(o, key, default) ==
  IF Has(o, key) THEN o[key] ELSE default

\* lines 146-162: try get / except NoOptionError: None
GetOrNone(o, key) ==
  IF Has(o, key) THEN Some(o[key]) ELSE None

\* lines 139-143: int() is inside the try, ValueError is not caught
GetPort_with_fallback(o) ==
  IF Has(o, "rabbit_port") /\ int(o["rabbit_port"]).raised = "none"
  THEN int(o["rabbit_port"])
  ELSE [raised |-> "none", val |-> DefaultPort]

GetPort(o) ==
  IF Has(o, "rabbit_port") THEN int(o["rabbit_port"])
  ELSE [raised |-> "none", val |-> DefaultPort]

\* lines 164-168: a missing body raises SystemExit
GetBody_optional(o) ==
  IF Has(o, "rabbit_message_body")
  THEN [raised |-> "none", val |-> o["rabbit_message_body"]]
  ELSE [raised |-> "none", val |-> <<"N", "o", "n", "e">>]

GetBody(o) ==
  IF Has(o, "rabbit_message_body")
  THEN [raised |-> "none", val |-> o["rabbit_message_body"]]
  ELSE [raised |-> "SystemExit", val |-> <<>>]

get_connection_info(config_inst) ==
  IF ~config_inst.has_section
  THEN [raised |-> "NoSectionError", info |-> <<>>]
  ELSE
    LET o == config_inst.options
        port == GetPort(o)
        body == GetBody(o)
    IN IF port.raised # "none"
       THEN [raised |-> port.raised, info |-> <<>>]
       ELSE IF body.raised # "none"
       THEN [raised |-> body.raised, info |-> <<>>]
       ELSE [raised |-> "none",
             info |-> [rabbit_host |-> Get(o, "rabbit_host", "localhost"),
                       rabbit_user |-> Get(o, "rabbit_user", "guest"),
                       rabbit_pass |-> Get(o, "rabbit_pass", "guest"),
                       rabbit_vhost |-> Get(o, "rabbit_vhost", "/"),
                       rabbit_port |-> port.val,
                       rabbit_queue |-> GetOrNone(o, "rabbit_queue"),
                       rabbit_exchange |-> GetOrNone(o, "rabbit_exchange"),
                       rabbit_routing_key |-> GetOrNone(o, "rabbit_routing_key"),
                       rabbit_message_body |-> body.val]]

(***************************************************************************)
(* The body publish_basic hands to basic_publish, lines 205-207: the JSON *)
(* text of a dict, and any other value as literal_eval returned it.       *)
(***************************************************************************)
msg_body(value) ==
  IF value.kind = "dict" THEN MkStr(json_dumps(value)) ELSE value

ConnectCall(info) ==
  [op |-> "connect", host |-> info.rabbit_host, port |-> info.rabbit_port,
   virtual_host |-> info.rabbit_vhost, user |-> info.rabbit_user,
   pass |-> info.rabbit_pass]

ChannelCall == [op |-> "channel"]

PublishCall_by_routing_key(info, body) ==
  [op |-> "basic_publish", exchange |-> "", routing_key |-> info.rabbit_routing_key,
   body |-> body]

PublishCall(info, body) ==
  [op |-> "basic_publish", exchange |-> "", routing_key |-> info.rabbit_queue,
   body |-> body]

CloseCall == [op |-> "close"]

(***************************************************************************)
(* __main__, lines 210-236                                                 *)
(***************************************************************************)
Init ==
  /\ file_readable \in BOOLEAN
  /\ basic \in BOOLEAN
  /\ config \in IF file_readable
                THEN {[has_section |-> FALSE, options |-> <<>>]}
                     \cup {[has_section |-> TRUE, options |-> s] : s \in Sections}
                ELSE {[has_section |-> FALSE, options |-> <<>>]}
  /\ pc = "readfp"
  /\ connection_info = <<>>
  /\ calls = <<>>
  /\ evaluated = FALSE
  /\ error = NoError

\* lines 222-227: a missing file ends the run with SystemExit
ReadConfig ==
  /\ pc = "readfp"
  /\ IF file_readable
     THEN pc' = "get_connection_info" /\ error' = error
     ELSE pc' = "done" /\ error' = Raised("SystemExit", "readfp")
  /\ UNCHANGED <<file_readable, config, basic, connection_info, calls, evaluated>>

\* line 230
GetConnectionInfo ==
  /\ pc = "get_connection_info"
  /\ LET r == get_connection_info(config) IN
     IF r.raised = "none"
     THEN /\ connection_info' = r.info
          /\ pc' = "connect_to_bus"
          /\ error' = error
     ELSE /\ connection_info' = connection_info
          /\ pc' = "done"
          /\ error' = Raised(r.raised, "get_connection_info")
  /\ UNCHANGED <<file_readable, config, basic, calls, evaluated>>

\* line 231, connect_to_bus lines 173-194: the broker accepts or refuses
ConnectToBus ==
  /\ pc = "connect_to_bus"
  /\ calls' = Append(calls, ConnectCall(connection_info))
  /\ \E ok \in BOOLEAN :
       IF ok THEN pc' = "get_channel" /\ error' = error
       ELSE pc' = "done" /\ error' = Raised("AMQPError", "connect_to_bus")
  /\ UNCHANGED <<file_readable, config, basic, connection_info, evaluated>>

\* line 232, get_channel lines 197-201
GetChannel ==
  /\ pc = "get_channel"
  /\ calls' = Append(calls, ChannelCall)
  /\ \E ok \in BOOLEAN :
       IF ok THEN pc' = "if_basic" /\ error' = error
       ELSE pc' = "done" /\ error' = Raised("AMQPError", "get_channel")
  /\ UNCHANGED <<file_readable, config, basic, connection_info, evaluated>>

\* lines 233-234, publish_basic lines 204-208
PublishBasic ==
  /\ pc = "if_basic"
  /\ basic
  /\ evaluated' = TRUE
  /\ LET r == literal_eval(connection_info.rabbit_message_body) IN
     IF r.raised # "none"
     THEN /\ calls' = calls
          /\ pc' = "done"
          /\ error' = Raised(r.raised, "publish_basic")
     ELSE /\ calls' = Append(calls, PublishCall(connection_info, msg_body(r.val)))
          /\ \E ok \in BOOLEAN :
               IF ok THEN pc' = "close" /\ error' = error
               ELSE pc' = "done" /\ error' = Raised("AMQPError", "publish_basic")
  /\ UNCHANGED <<file_readable, config, basic, connection_info>>

SkipPublish_closing ==
  /\ pc = "if_basic"
  /\ ~basic
  /\ pc' = "close"
  /\ UNCHANGED <<file_readable, config, basic, connection_info, calls, evaluated, error>>

\* line 233 without -b: the script ends after get_channel
SkipPublish ==
  /\ pc = "if_basic"
  /\ ~basic
  /\ pc' = "done"
  /\ UNCHANGED <<file_readable, config, basic, connection_info, calls, evaluated, error>>

\* line 235
Close ==
  /\ pc = "close"
  /\ calls' = Append(calls, CloseCall)
  /\ \E ok \in BOOLEAN :
       IF ok THEN pc' = "exit" /\ error' = error
       ELSE pc' = "done" /\ error' = Raised("AMQPError", "close")
  /\ UNCHANGED <<file_readable, config, basic, connection_info, evaluated>>

\* line 236
Exit ==
  /\ pc = "exit"
  /\ pc' = "done"
  /\ UNCHANGED <<file_readable, config, basic, connection_info, calls, evaluated, error>>

Next ==
  \/ ReadConfig
  \/ GetConnectionInfo
  \/ ConnectToBus
  \/ GetChannel
  \/ PublishBasic
  \/ SkipPublish
  \/ Close
  \/ Exit

Spec == Init /\ [][Next]_vars

(***************************************************************************)
(* Vocabulary of the properties                                            *)
(***************************************************************************)
Done == pc = "done"

Ops == [i \in 1..Len(calls) |-> calls[i].op]

HasCall(op) == \E i \in 1..Len(calls) : calls[i].op = op

SectionExists == file_readable /\ config.has_section

Present(key) == SectionExists /\ Has(config.options, key)

Absent(key) == SectionExists /\ ~Has(config.options, key)

\* get_connection_info has returned or raised
AfterResolution == pc \notin {"readfp", "get_connection_info"}

Resolved == DOMAIN connection_info # {}

\* text that denotes an integer: decimal digits after at most one sign,
\* blanks around them dropped
Convertible(text) ==
  LET t == Strip(text)
      ds == IF t # <<>> /\ t[1] \in {"+", "-"} THEN Tail(t) ELSE t
  IN ds # <<>> /\ \A i \in 1..Len(ds) : ds[i] \in Digits

\* the integer that convertible text denotes
Denoted(text) ==
  LET t == Strip(text) IN
  IF t[1] = "-" THEN 0 - BaseValue(Tail(t), 10)
  ELSE IF t[1] = "+" THEN BaseValue(Tail(t), 10)
  ELSE BaseValue(t, 10)

PortUsable == Absent("rabbit_port") \/ (Present("rabbit_port") /\ Convertible(config.options["rabbit_port"]))

ValidLiteral(raw) == literal_eval(raw).raised = "none"

TaskSyncLiteral ==
  <<"{", "'", "t", "a", "s", "k", "'", ":", " ", "'", "s", "y", "n", "c", "'", "}">>

TaskSyncJson ==
  <<"{", "\"", "t", "a", "s", "k", "\"", ":", " ", "\"", "s", "y", "n", "c", "\"", "}">>

\* C1: a section without rabbit_message_body ends the run inside
\* get_connection_info with a fatal error, and the run never calls the
\* transport, whatever the other keys and the basic flag are.
C1_MissingBodyIsFatal ==
  Absent("rabbit_message_body") =>
    /\ calls = <<>>
    /\ ~Resolved
    /\ pc \in {"readfp", "get_connection_info", "done"}
    /\ Done => /\ error.at = "get_connection_info"
               /\ error.exc \in {"SystemExit", "ValueError"}
    /\ (Done /\ PortUsable) => error.exc = "SystemExit"

C1_Witness ==
  /\ Absent("rabbit_message_body")
  /\ basic
  /\ Present("rabbit_queue")
  /\ Done
  /\ error = Raised("SystemExit", "get_connection_info")

\* C2 (as claimed): a run whose rabbit_message_body is not a valid literal
\* never calls connect.
C2_BadLiteralNeverConnects ==
  (Present("rabbit_message_body") /\ ~ValidLiteral(config.options["rabbit_message_body"]))
    => ~HasCall("connect")

\* C3 (as claimed): a basic-publish run with rabbit_message_body set and
\* rabbit_queue absent never calls connect and never publishes with an unset
\* routing key.
C3_MissingQueueNeverConnects ==
  (basic /\ Present("rabbit_message_body") /\ Absent("rabbit_queue")) =>
    /\ ~HasCall("connect")
    /\ \A i \in 1..Len(calls) :
         calls[i].op = "basic_publish" => calls[i].routing_key.some

\* C4 (as claimed): a run that opened a connection has closed it when it ends.
C4_OpenedConnectionIsClosed ==
  (Done /\ HasCall("connect") /\ error.at # "connect_to_bus") => HasCall("close")

\* C5: a basic-publish run with rabbit_queue set and a valid literal body, on
\* a transport that does not fail, calls connect, channel, basic_publish and
\* close once each in that order; the publish has the empty exchange, the
\* configured queue as routing key and the built payload as body.
C5_HappyPath ==
  ( /\ basic
    /\ Present("rabbit_queue")
    /\ Present("rabbit_message_body")
    /\ ValidLiteral(config.options["rabbit_message_body"])
    /\ PortUsable
    /\ error = NoError ) =>
    LET o == config.options
        full == <<"connect", "channel", "basic_publish", "close">>
    IN /\ Len(calls) <= 4
       /\ Ops = SubSeq(full, 1, Len(calls))
       /\ Done => Len(calls) = 4
       /\ Len(calls) >= 3 =>
            /\ calls[3].exchange = ""
            /\ calls[3].routing_key = Some(o["rabbit_queue"])
            /\ calls[3].body = msg_body(literal_eval(o["rabbit_message_body"]).val)
            /\ o["rabbit_message_body"] = TaskSyncLiteral
                 => calls[3].body = MkStr(TaskSyncJson)

C5_Witness ==
  /\ basic
  /\ Done
  /\ error = NoError
  /\ Present("rabbit_queue")
  /\ config.options["rabbit_queue"] = "jobs"
  /\ Present("rabbit_message_body")
  /\ config.options["rabbit_message_body"] = TaskSyncLiteral
  /\ Ops = <<"connect", "channel", "basic_publish", "close">>

Keys ==
  {"rabbit_host", "rabbit_user", "rabbit_pass", "rabbit_vhost", "rabbit_port",
   "rabbit_queue", "rabbit_exchange", "rabbit_routing_key", "rabbit_message_body"}

\* the documented value of a string key: configured text verbatim, else default
Documented(key, default) ==
  /\ Present(key) => connection_info[key] = config.options[key]
  /\ Absent(key) => connection_info[key] = default

\* the documented value of a key without default: configured text, else unset
DocumentedOrUnset(key) ==
  /\ Present(key) => connection_info[key] = Some(config.options[key])
  /\ Absent(key) => connection_info[key] = None

DocumentedStrings ==
  /\ Documented("rabbit_host", "localhost")
  /\ Documented("rabbit_user", "guest")
  /\ Documented("rabbit_pass", "guest")
  /\ Documented("rabbit_vhost", "/")
  /\ DocumentedOrUnset("rabbit_queue")
  /\ DocumentedOrUnset("rabbit_exchange")
  /\ DocumentedOrUnset("rabbit_routing_key")
  /\ connection_info["rabbit_message_body"] = config.options["rabbit_message_body"]

\* C6 (as claimed): for an existing section (with the required body), every
\* absent key resolves to its documented value and every present key, the
\* empty string included, to its configured text, so that the resolved record
\* always has all nine fields.
C6_EveryKeyResolves ==
  (Present("rabbit_message_body") /\ AfterResolution) =>
    /\ DOMAIN connection_info = Keys
    /\ DocumentedStrings
    /\ Absent("rabbit_port") => connection_info["rabbit_port"] = 5672
    /\ Present("rabbit_port") =>
         IntToChars(connection_info["rabbit_port"]) = config.options["rabbit_port"]

\* C6 (amended): when rabbit_message_body is present and rabbit_port is absent
\* or convertible, the record has all nine fields, each absent key with its
\* documented value, each present string key verbatim and a present
\* rabbit_port as the integer its text denotes; a present rabbit_port that is
\* not convertible, the empty string included, leaves no record.
C6_KeysResolveIndependently ==
  (Present("rabbit_message_body") /\ AfterResolution) =>
    IF PortUsable
    THEN /\ DOMAIN connection_info = Keys
         /\ DocumentedStrings
         /\ Absent("rabbit_port") => connection_info["rabbit_port"] = 5672
         /\ Present("rabbit_port") =>
              connection_info["rabbit_port"] = Denoted(config.options["rabbit_port"])
    ELSE /\ ~Resolved
         /\ error = Raised("ValueError", "get_connection_info")

C6_Witness ==
  /\ Present("rabbit_message_body")
  /\ pc = "connect_to_bus"
  /\ Present("rabbit_host") /\ config.options["rabbit_host"] = ""
  /\ Absent("rabbit_user")
  /\ Present("rabbit_port")
  /\ Absent("rabbit_queue")
  /\ Present("rabbit_exchange")

\* C7: a present rabbit_port that is not convertible to an integer makes
\* resolution fail: no record is returned, 5672 is not substituted and the
\* run never calls the transport.
C7_BadPortIsFatal ==
  (Present("rabbit_port") /\ ~Convertible(config.options["rabbit_port"])) =>
    /\ ~Resolved
    /\ calls = <<>>
    /\ pc \in {"readfp", "get_connection_info", "done"}
    /\ Done => error = Raised("ValueError", "get_connection_info")

C7_Witness ==
  /\ Present("rabbit_port")
  /\ config.options["rabbit_port"] = <<"a", "b", "c">>
  /\ Present("rabbit_message_body")
  /\ Done
  /\ error = Raised("ValueError", "get_connection_info")

\* str() and repr() of a Python value, the textual representation C8 names
RECURSIVE PyRepr(_)
RECURSIVE PyReprItems(_, _)
PyRepr(v) ==
  CASE v.kind = "str" -> <<"'">> \o v.chars \o <<"'">>
    [] v.kind = "int" -> IntToChars(v.num)
    [] v.kind = "bool" -> IF v.num = 1 THEN <<"T", "r", "u", "e">>
                          ELSE <<"F", "a", "l", "s", "e">>
    [] v.kind = "NoneType" -> <<"N", "o", "n", "e">>
    [] v.kind = "list" -> <<"[">> \o PyReprItems(v.items, 1) \o <<"]">>

PyReprItems(its, i) ==
  IF i > Len(its) THEN <<>>
  ELSE PyRepr(its[i])
       \o (IF i < Len(its) THEN <<",", " ">> ELSE <<>>)
       \o PyReprItems(its, i + 1)

PyStr(v) == IF v.kind = "str" THEN v.chars ELSE PyRepr(v)

\* C8 (as claimed): the body of every publish call is text: the JSON text of
\* a mapping, and the textual representation of any other value.
C8_BodyIsText ==
  \A i \in 1..Len(calls) :
    calls[i].op = "basic_publish" =>
      LET v == literal_eval(config.options["rabbit_message_body"]).val IN
      calls[i].body = IF v.kind = "dict" THEN MkStr(json_dumps(v))
                      ELSE MkStr(PyStr(v))

\* the phase of the run, in the terms of the per-run state machine
Phase ==
  IF error # NoError THEN "Failed"
  ELSE IF HasCall("close") THEN "Closed"
  ELSE IF HasCall("basic_publish") THEN "Published"
  ELSE IF HasCall("connect") THEN "Connected"
  ELSE IF Resolved THEN "Resolved"
  ELSE "Idle"

PhaseRank(ph) ==
  CASE ph = "Idle" -> 0 [] ph = "Resolved" -> 1 [] ph = "Connected" -> 2
    [] ph = "Published" -> 3 [] ph = "Closed" -> 4 [] ph = "Failed" -> 5

PublishCount == Cardinality({i \in 1..Len(calls) : calls[i].op = "basic_publish"})

\* C9 (as claimed): the phase only moves forward and is never re-entered,
\* at most one publish is issued, and a run that has ended is in Closed or
\* Failed.
C9_ForwardToClosedOrFailed ==
  /\ [][PhaseRank(Phase') >= PhaseRank(Phase)]_vars
  /\ [](PublishCount <= 1)
  /\ [](Done => Phase \in {"Closed", "Failed"})

\* C10: a publish call is issued only with -b; a run without -b never
\* evaluates the body, never publishes and never closes, and when nothing
\* fails it ends having called connect and channel only.
C10_PublishOnlyInBasicMode ==
  /\ HasCall("basic_publish") => basic
  /\ ~basic =>
       /\ ~evaluated
       /\ ~HasCall("basic_publish")
       /\ ~HasCall("close")
       /\ (Done /\ error = NoError) => Ops = <<"connect", "channel">>

C10_Witness ==
  /\ ~basic
  /\ Done
  /\ error = NoError
  /\ Present("rabbit_message_body")
  /\ Ops = <<"connect", "channel">>

====
